---- MODULE Spec2Model ----
(***************************************************************************)
(* Model of epub_toc: walk_toc flattens an EPUB navigation tree into       *)
(* (title, level) pairs and toc_to_markdown renders them as a Markdown     *)
(* heading outline next to the input file.                                 *)
(*                                                                         *)
(* Strings are sequences of one-character strings, so that strip(),        *)
(* title(), "#" * n, "\n".join() and Path.stem are computed and not        *)
(* assumed.                                                                *)
(***************************************************************************)
EXTENDS Integers, Sequences, FiniteSets, TLC

VARIABLES
    pc,             \* the statement about to run
    toc, results,   \* a direct call: results = list(walk_toc(toc, level=0))
    epub_path,      \* toc_to_markdown's argument
    fs,             \* the files at the output paths
    book,           \* epub.read_epub's result
    output_file, book_title, md_lines, toc_titles, titleized_toc,
    stdout,         \* what print has written
    error           \* the exception that left toc_to_markdown, if any

vars == <<pc, toc, results, epub_path, fs, book, output_file, book_title,
          md_lines, toc_titles, titleized_toc, stdout, error>>

run_vars == <<epub_path, fs, book, output_file, book_title, md_lines,
              toc_titles, titleized_toc, stdout, error>>

(* ---------------------------------------------------------------------- *)
(* Bounds                                                                  *)
(* ---------------------------------------------------------------------- *)

\* largest number of nodes of a navigation tree handed to walk_toc directly
MaxNodes == 3

\* largest number of nodes of the navigation tree of a book read from disk
MaxTocNodes == 2

\* longest file name of an input path
MaxNameLen == 5

\* largest number of calls of toc_to_markdown on the same EPUB
MaxCalls == 2

(* ---------------------------------------------------------------------- *)
(* Strings                                                                 *)
(* ---------------------------------------------------------------------- *)

SP == " "
NL == "\n"

\* characters str.strip() removes
Whitespace == {SP, NL}

\* Python's None, as a title
None == <<"None">>

\* the titles a node of the navigation tree may carry: missing, empty,
\* whitespace only, plain, and padded on both sides
Titles == {None, <<>>, <<SP>>, <<"a">>, <<SP, "b", SP>>}

\* bool(title): None and "" are false, every other string is true
Truthy(s) == s # None /\ s # <<>>

RECURSIVE lstrip(_)
lstrip(s) ==
    IF s = <<>> THEN <<>>
    ELSE IF Head(s) \in Whitespace THEN lstrip(Tail(s)) ELSE s

RECURSIVE rstrip(_)
rstrip(s) ==
    IF s = <<>> THEN <<>>
    ELSE IF s[Len(s)] \in Whitespace THEN rstrip(SubSeq(s, 1, Len(s) - 1)) ELSE s

\* str.strip()
strip(s) == rstrip(lstrip(s))

(* ---------------------------------------------------------------------- *)
(* Navigation trees (book.toc)                                             *)
(* ---------------------------------------------------------------------- *)

\* Link          : an epub.Link
\* Pair          : a tuple (epub.Section, children)
\* Section       : a bare epub.Section
\* LinkPair      : a tuple (epub.Link, children), one of the shapes that is
\*                 none of the three above
LeafKinds == {"Link", "Section"}
TupleKinds == {"Pair", "LinkPair"}

Node(k, t, c) == [kind |-> k, title |-> t, children |-> c]

\* the shapes of the item lists with exactly n nodes: an item is written as
\* the list of its children
RECURSIVE ShapesOfSize(_)
ShapesOfSize(n) ==
    IF n = 0 THEN {<<>>}
    ELSE UNION {{<<c>> \o rest : c \in ShapesOfSize(k - 1),
                                 rest \in ShapesOfSize(n - k)} : k \in 1..n}

Shapes(n) == UNION {ShapesOfSize(k) : k \in 0..n}

RECURSIVE Size(_)
Size(sh) == IF sh = <<>> THEN 0 ELSE 1 + Size(Head(sh)) + Size(Tail(sh))

\* the item list of shape sh whose nodes, numbered in document order from
\* at, carry the kinds and titles lab
RECURSIVE Decorate(_, _, _)
Decorate(sh, lab, at) ==
    IF sh = <<>> THEN <<>>
    ELSE <<Node(lab[at][1], lab[at][2], Decorate(Head(sh), lab, at + 1))>>
             \o Decorate(Tail(sh), lab, at + 1 + Size(Head(sh)))

\* only a tuple carries a children list
RECURSIVE WellFormed(_)
WellFormed(t) ==
    \A i \in 1..Len(t) :
        /\ t[i].kind \in LeafKinds => t[i].children = <<>>
        /\ WellFormed(t[i].children)

\* the kinds and titles of the nodes of a list of shape sh
Labels(sh) == [1..Size(sh) -> (LeafKinds \cup TupleKinds) \X Titles]

(* ---------------------------------------------------------------------- *)
(* walk_toc                                                                *)
(* ---------------------------------------------------------------------- *)

\* one yield: the tuple (title.strip(), level)
Entry(title, level) == <<strip(title), level>>

RECURSIVE walk_toc(_, _), walk_item(_, _)

\* walk_item with the section's own entry yielded after its children
walk_item_section_last(item, level) ==
    CASE item.kind = "Link" ->
            IF Truthy(item.title) THEN <<Entry(item.title, level)>> ELSE <<>>
      [] item.kind = "Pair" ->
            walk_toc(item.children, level + 1)
                \o (IF Truthy(item.title) THEN <<Entry(item.title, level)>> ELSE <<>>)
      [] item.kind = "Section" ->
            IF Truthy(item.title) THEN <<Entry(item.title, level)>> ELSE <<>>
      [] OTHER -> <<>>

\* walk_item with the recursion nested under the section's title test
walk_item_titled_only(item, level) ==
    CASE item.kind = "Link" ->
            IF Truthy(item.title) THEN <<Entry(item.title, level)>> ELSE <<>>
      [] item.kind = "Pair" ->
            IF Truthy(item.title)
            THEN <<Entry(item.title, level)>> \o walk_toc(item.children, level + 1)
            ELSE walk_toc(item.children, level)
      [] item.kind = "Section" ->
            IF Truthy(item.title) THEN <<Entry(item.title, level)>> ELSE <<>>
      [] OTHER -> <<>>

\* walk_item without the branch for a bare Section
walk_item_no_bare_section(item, level) ==
    CASE item.kind = "Link" ->
            IF Truthy(item.title) THEN <<Entry(item.title, level)>> ELSE <<>>
      [] item.kind = "Pair" ->
            (IF Truthy(item.title) THEN <<Entry(item.title, level)>> ELSE <<>>)
                \o walk_toc(item.children, level + 1)
      [] OTHER -> <<>>

\* walk_item that takes every 2-tuple for a section with children
walk_item_any_tuple(item, level) ==
    CASE item.kind = "Link" ->
            IF Truthy(item.title) THEN <<Entry(item.title, level)>> ELSE <<>>
      [] item.kind \in {"Pair", "LinkPair"} ->
            (IF Truthy(item.title) THEN <<Entry(item.title, level)>> ELSE <<>>)
                \o walk_toc(item.children, level + 1)
      [] item.kind = "Section" ->
            IF Truthy(item.title) THEN <<Entry(item.title, level)>> ELSE <<>>
      [] OTHER -> <<>>

\* what one item of the for loop yields
walk_item(item, level) ==
    CASE item.kind = "Link" ->
            IF Truthy(item.title) THEN <<Entry(item.title, level)>> ELSE <<>>
      [] item.kind = "Pair" ->
            (IF Truthy(item.title) THEN <<Entry(item.title, level)>> ELSE <<>>)
                \o walk_toc(item.children, level + 1)
      [] item.kind = "Section" ->
            IF Truthy(item.title) THEN <<Entry(item.title, level)>> ELSE <<>>
      [] OTHER -> <<>>

\* list(walk_toc(toc, level)): the sequence of (title, level) the generator yields
walk_toc(t, level) ==
    IF t = <<>> THEN <<>>
    ELSE walk_item(Head(t), level) \o walk_toc(Tail(t), level)

(* ---------------------------------------------------------------------- *)
(* Paths and files                                                         *)
(* ---------------------------------------------------------------------- *)

DOT == "."

\* a path: the directory it lies in and its final component
Path(parent, name) == [parent |-> parent, name |-> name]

NoPath == Path(<<>>, <<>>)

\* str.rfind("."), counted from 1; 0 when there is no dot
RECURSIVE rfind_dot(_)
rfind_dot(name) ==
    IF name = <<>> THEN 0
    ELSE IF name[Len(name)] = DOT THEN Len(name)
    ELSE rfind_dot(SubSeq(name, 1, Len(name) - 1))

\* stem that cuts the name at its first dot
stem_first_dot(name) ==
    IF \E i \in 2..Len(name) : name[i] = DOT
    THEN SubSeq(name, 1, (CHOOSE i \in 2..Len(name) :
                              name[i] = DOT /\ \A j \in 2..(i - 1) : name[j] # DOT) - 1)
    ELSE name

\* PurePath.stem: the name up to its last dot, when that dot is neither the
\* first nor the last character
stem(name) ==
    LET i == rfind_dot(name)
    IN  IF 1 < i /\ i < Len(name) THEN SubSeq(name, 1, i - 1) ELSE name

ToCSuffix == <<SP, "-", SP, "T", "o", "C", DOT, "m", "d">>

\* epub_path.with_name(f"{epub_path.stem} - ToC.md")
OutputFile(path) == Path(path.parent, stem(path.name) \o ToCSuffix)

NameChars == {"f", "v", DOT}

RECURSIVE NamesOfLen(_)
NamesOfLen(n) ==
    IF n = 0 THEN {<<>>}
    ELSE {<<c>> \o r : c \in NameChars, r \in NamesOfLen(n - 1)}

\* the names a file can have
FileNames ==
    UNION {NamesOfLen(n) : n \in 1..MaxNameLen} \ {<<DOT>>, <<DOT, DOT>>}

Parents == {<<>>, <<"books">>}

\* the input path of a full run
EpubPaths == {Path(<<"books">>, <<"f", DOT, "v", DOT, "f">>)}

OutputPaths == {OutputFile(p) : p \in EpubPaths}

NoFile == <<"NoFile">>

\* the content of a file left at the output path by something else
OldText == <<"o", "l", "d", NL>>

(* ---------------------------------------------------------------------- *)
(* Book metadata                                                           *)
(* ---------------------------------------------------------------------- *)

\* one value of the metadata list: ebooklib stores (value, attributes)
\* tuples; the code also accepts a plain string
TitleItem(is_tuple, value) == [is_tuple |-> is_tuple, value |-> value]

\* book.metadata, as far as it is read: whether the Dublin Core namespace is
\* a key, and the list under its "title" key
Metadata ==
    {[dc |-> FALSE, titles |-> <<>>],
     [dc |-> TRUE, titles |-> <<>>],
     [dc |-> TRUE, titles |-> <<TitleItem(TRUE, <<"b", SP, "a">>)>>],
     [dc |-> TRUE, titles |-> <<TitleItem(FALSE, <<"a">>), TitleItem(TRUE, <<"b">>)>>]}

NoBook == [metadata |-> [dc |-> FALSE, titles |-> <<>>], toc |-> <<>>]

Untitled == <<"U", "n", "t", "i", "t", "l", "e", "d">>

\* book title without the default
title_of_no_default(metadata) ==
    IF metadata.dc /\ metadata.titles # <<>>
    THEN metadata.titles[1].value
    ELSE <<>>

\* lines 68-72: the first metadata title, "Untitled" without one
title_of(metadata) ==
    IF metadata.dc /\ metadata.titles # <<>>
    THEN metadata.titles[1].value
    ELSE Untitled

(* ---------------------------------------------------------------------- *)
(* Rendering                                                               *)
(* ---------------------------------------------------------------------- *)

HASH == "#"

\* "#" * n
RECURSIVE hashes(_)
hashes(n) == IF n <= 0 THEN <<>> ELSE <<HASH>> \o hashes(n - 1)

\* heading line one level too shallow
heading_line_flat(title, level) == hashes(level + 1) \o <<SP>> \o title

\* lines 90-92: f"{'#' * (level + 2)} {title}"
heading_line(title, level) == hashes(level + 2) \o <<SP>> \o title

\* "\n".join(lines)
RECURSIVE join(_)
join(lines) ==
    IF lines = <<>> THEN <<>>
    ELSE IF Len(lines) = 1 THEN lines[1]
    ELSE lines[1] \o <<NL>> \o join(Tail(lines))

\* text written without the final newline
text_of_unterminated(lines) == join(lines)

\* line 94: "\n".join(md_lines) + "\n"
text_of(lines) == join(lines) \o <<NL>>

Upper(c) == CASE c = "a" -> "A" [] c = "b" -> "B" [] OTHER -> c
Lower(c) == CASE c = "A" -> "a" [] c = "B" -> "b" [] OTHER -> c
Cased(c) == c \in {"a", "b", "A", "B"}

\* str.title(): a cased character is upper case after an uncased one and
\* lower case after a cased one
RECURSIVE titlecase(_, _)
titlecase(s, after_cased) ==
    IF s = <<>> THEN <<>>
    ELSE <<IF after_cased THEN Lower(Head(s)) ELSE Upper(Head(s))>>
             \o titlecase(Tail(s), Cased(Head(s)))

(* ---------------------------------------------------------------------- *)
(* toc_to_markdown                                                         *)
(* ---------------------------------------------------------------------- *)

Init ==
    /\ pc = "read_epub"
    /\ toc = <<>>
    /\ results = <<>>
    /\ epub_path \in EpubPaths
    /\ fs \in [OutputPaths -> {NoFile, OldText}]
    /\ book = NoBook
    /\ output_file = NoPath
    /\ book_title = <<>>
    /\ md_lines = <<>>
    /\ toc_titles = <<>>
    /\ titleized_toc = {}
    /\ stdout = <<>>
    /\ error = "none"

\* a load failure that has already created the output file
ReadEpubRaisesAfterOpen ==
    /\ pc = "read_epub"
    /\ fs' = [fs EXCEPT ![OutputFile(epub_path)] = <<>>]
    /\ error' = "LoadError"
    /\ pc' = "raised"
    /\ UNCHANGED <<toc, results, epub_path, book, output_file, book_title,
                   md_lines, toc_titles, titleized_toc, stdout>>

\* line 61: epub.read_epub raises (no such file, unreadable, not an EPUB)
ReadEpubRaises ==
    /\ pc = "read_epub"
    /\ error' = "LoadError"
    /\ pc' = "raised"
    /\ UNCHANGED <<toc, results, epub_path, fs, book, output_file, book_title,
                   md_lines, toc_titles, titleized_toc, stdout>>

\* line 61: book = epub.read_epub(str(epub_path))
ReadEpub ==
    /\ pc = "read_epub"
    /\ \E md \in Metadata : \E sh \in Shapes(MaxTocNodes) : \E lab \in Labels(sh) :
          /\ WellFormed(Decorate(sh, lab, 1))
          /\ book' = [metadata |-> md, toc |-> Decorate(sh, lab, 1)]
    /\ pc' = "output_file"
    /\ UNCHANGED <<toc, results, epub_path, fs, output_file, book_title,
                   md_lines, toc_titles, titleized_toc, stdout, error>>

\* lines 64-65: output_file = epub_path.with_name(f"{epub_path.stem} - ToC.md")
DeriveOutputFile ==
    /\ pc = "output_file"
    /\ output_file' = OutputFile(epub_path)
    /\ pc' = "book_title"
    /\ UNCHANGED <<toc, results, epub_path, fs, book, book_title,
                   md_lines, toc_titles, titleized_toc, stdout, error>>

\* lines 68-72: book_title
BookTitle ==
    /\ pc = "book_title"
    /\ book_title' = title_of(book.metadata)
    /\ pc' = "md_lines"
    /\ UNCHANGED <<toc, results, epub_path, fs, book, output_file,
                   md_lines, toc_titles, titleized_toc, stdout, error>>

\* lines 74-82: the title heading, the empty line, the empty collections
StartLines ==
    /\ pc = "md_lines"
    /\ md_lines' = <<<<HASH, SP>> \o book_title, <<>>>>
    /\ toc_titles' = <<>>
    /\ titleized_toc' = {}
    /\ pc' = "collect"
    /\ UNCHANGED <<toc, results, epub_path, fs, book, output_file, book_title,
                   stdout, error>>

\* lines 84-86: one iteration over the generator walk_toc(book.toc, level=0)
Collect ==
    /\ pc = "collect"
    /\ Len(toc_titles) < Len(walk_toc(book.toc, 0))
    /\ LET next == walk_toc(book.toc, 0)[Len(toc_titles) + 1]
       IN  /\ toc_titles' = Append(toc_titles, next)
           /\ titleized_toc' = titleized_toc \cup {titlecase(next[1], FALSE)}
    /\ UNCHANGED <<pc, toc, results, epub_path, fs, book, output_file, book_title,
                   md_lines, stdout, error>>

\* line 84: the generator is exhausted
CollectDone ==
    /\ pc = "collect"
    /\ Len(toc_titles) = Len(walk_toc(book.toc, 0))
    /\ pc' = "entries"
    /\ UNCHANGED <<toc, results, run_vars>>

\* an iteration that renders the title-cased title
AddEntryTitleized ==
    /\ pc = "entries"
    /\ Len(md_lines) - 2 < Len(toc_titles)
    /\ LET e == toc_titles[Len(md_lines) - 1]
       IN  md_lines' = Append(md_lines, heading_line(titlecase(e[1], FALSE), e[2]))
    /\ UNCHANGED <<pc, toc, results, epub_path, fs, book, output_file, book_title,
                   toc_titles, titleized_toc, stdout, error>>

\* lines 89-92: one iteration over toc_titles
AddEntry ==
    /\ pc = "entries"
    /\ Len(md_lines) - 2 < Len(toc_titles)
    /\ LET e == toc_titles[Len(md_lines) - 1]
       IN  md_lines' = Append(md_lines, heading_line(e[1], e[2]))
    /\ UNCHANGED <<pc, toc, results, epub_path, fs, book, output_file, book_title,
                   toc_titles, titleized_toc, stdout, error>>

\* line 89: toc_titles is exhausted
EntriesDone ==
    /\ pc = "entries"
    /\ Len(md_lines) - 2 = Len(toc_titles)
    /\ pc' = "write_text"
    /\ UNCHANGED <<toc, results, run_vars>>

\* a write that opens the file for appending
WriteTextAppend ==
    /\ pc = "write_text"
    /\ fs' = [fs EXCEPT ![output_file] =
                 (IF @ = NoFile THEN <<>> ELSE @) \o text_of(md_lines)]
    /\ pc' = "print"
    /\ UNCHANGED <<toc, results, epub_path, book, output_file, book_title,
                   md_lines, toc_titles, titleized_toc, stdout, error>>

\* line 94: output_file.write_text(...) opens, writes and closes the file
WriteText ==
    /\ pc = "write_text"
    /\ fs' = [fs EXCEPT ![output_file] = text_of(md_lines)]
    /\ pc' = "print"
    /\ UNCHANGED <<toc, results, epub_path, book, output_file, book_title,
                   md_lines, toc_titles, titleized_toc, stdout, error>>

\* line 94: open() raises (permission denied, directory missing)
WriteTextOpenRaises ==
    /\ pc = "write_text"
    /\ error' = "WriteError"
    /\ pc' = "raised"
    /\ UNCHANGED <<toc, results, epub_path, fs, book, output_file, book_title,
                   md_lines, toc_titles, titleized_toc, stdout>>

\* a failed write whose exception is swallowed
WriteTextRaisesSwallowed ==
    /\ pc = "write_text"
    /\ \E n \in {0, Len(text_of(md_lines)) - 1} :
          fs' = [fs EXCEPT ![output_file] = SubSeq(text_of(md_lines), 1, n)]
    /\ pc' = "print"
    /\ UNCHANGED <<toc, results, epub_path, book, output_file, book_title,
                   md_lines, toc_titles, titleized_toc, stdout, error>>

\* line 94: the write raises after open() has truncated the file (disk
\* full): the file keeps a proper prefix of the text, here the shortest or
\* the longest one
WriteTextRaises ==
    /\ pc = "write_text"
    /\ \E n \in {0, Len(text_of(md_lines)) - 1} :
          fs' = [fs EXCEPT ![output_file] = SubSeq(text_of(md_lines), 1, n)]
    /\ error' = "WriteError"
    /\ pc' = "raised"
    /\ UNCHANGED <<toc, results, epub_path, book, output_file, book_title,
                   md_lines, toc_titles, titleized_toc, stdout>>

\* line 96: print(f"... saved to: {output_file}")
PrintSuccess ==
    /\ pc = "print"
    /\ stdout' = Append(stdout, [message |-> "Success", path |-> output_file])
    /\ pc' = "done"
    /\ UNCHANGED <<toc, results, epub_path, fs, book, output_file, book_title,
                   md_lines, toc_titles, titleized_toc, error>>

Next ==
    \/ ReadEpubRaises
    \/ ReadEpub
    \/ DeriveOutputFile
    \/ BookTitle
    \/ StartLines
    \/ Collect
    \/ CollectDone
    \/ AddEntry
    \/ EntriesDone
    \/ WriteText
    \/ WriteTextOpenRaises
    \/ WriteTextRaises
    \/ PrintSuccess

Spec == Init /\ [][Next]_vars

(* ---------------------------------------------------------------------- *)
(* toc_to_markdown called again                                            *)
(* ---------------------------------------------------------------------- *)

\* lines 60-61 of a further call toc_to_markdown(epub_path) after one that
\* returned: the locals are new, the files are as the earlier call left
\* them, and read_epub returns what it returned before, the EPUB being
\* unchanged
CallAgain ==
    /\ pc = "done"
    /\ Len(stdout) < MaxCalls
    /\ output_file' = NoPath
    /\ book_title' = <<>>
    /\ md_lines' = <<>>
    /\ toc_titles' = <<>>
    /\ titleized_toc' = {}
    /\ pc' = "output_file"
    /\ UNCHANGED <<toc, results, epub_path, fs, book, stdout, error>>

NextRerun == Next \/ CallAgain

SpecRerun == Init /\ [][NextRerun]_vars

(* ---------------------------------------------------------------------- *)
(* The output path of every input path                                     *)
(* ---------------------------------------------------------------------- *)

InitPath ==
    /\ pc = "output_file"
    /\ toc = <<>>
    /\ results = <<>>
    /\ \E parent \in Parents, name \in FileNames : epub_path = Path(parent, name)
    /\ fs = [p \in OutputPaths |-> NoFile]
    /\ book \in {[metadata |-> md, toc |-> <<>>] : md \in Metadata}
    /\ output_file = NoPath
    /\ book_title = <<>>
    /\ md_lines = <<>>
    /\ toc_titles = <<>>
    /\ titleized_toc = {}
    /\ stdout = <<>>
    /\ error = "none"

NextPath == DeriveOutputFile \/ BookTitle

SpecPath == InitPath /\ [][NextPath]_vars

(* ---------------------------------------------------------------------- *)
(* Direct calls of walk_toc                                                *)
(* ---------------------------------------------------------------------- *)

InitWalk ==
    /\ pc = "call"
    /\ \E sh \in Shapes(MaxNodes) : \E lab \in Labels(sh) :
          /\ WellFormed(Decorate(sh, lab, 1))
          /\ toc = Decorate(sh, lab, 1)
    /\ results = <<>>
    /\ epub_path = NoPath
    /\ fs = [p \in OutputPaths |-> NoFile]
    /\ book = NoBook
    /\ output_file = NoPath
    /\ book_title = <<>>
    /\ md_lines = <<>>
    /\ toc_titles = <<>>
    /\ titleized_toc = {}
    /\ stdout = <<>>
    /\ error = "none"

\* results = list(walk_toc(toc, level=0))
ListWalkToc ==
    /\ pc = "call"
    /\ results' = walk_toc(toc, 0)
    /\ pc' = "returned"
    /\ UNCHANGED <<toc, run_vars>>

NextWalk == ListWalkToc

SpecWalk == InitWalk /\ [][NextWalk]_vars

(* ---------------------------------------------------------------------- *)
(* Positions in a navigation tree                                          *)
(* ---------------------------------------------------------------------- *)

\* a position is the sequence of indices leading from the top-level list to
\* a node; its length less one is the number of items enclosing the node
RECURSIVE Positions(_)
Positions(t) ==
    {<<i>> : i \in 1..Len(t)}
        \cup UNION {{<<i>> \o p : p \in Positions(t[i].children)} : i \in 1..Len(t)}

RECURSIVE NodeAt(_, _)
NodeAt(t, p) ==
    IF Len(p) = 1 THEN t[p[1]] ELSE NodeAt(t[p[1]].children, Tail(p))

\* p is a proper prefix of q
IsAncestor(p, q) == Len(p) < Len(q) /\ SubSeq(q, 1, Len(p)) = p

\* document order: a node before its descendants, a subtree before the
\* subtrees of the later siblings
DocBefore(p, q) ==
    \/ IsAncestor(p, q)
    \/ \E i \in 1..Len(p) :
          /\ i <= Len(q)
          /\ SubSeq(p, 1, i - 1) = SubSeq(q, 1, i - 1)
          /\ p[i] < q[i]

\* the positions of S in document order
RECURSIVE InDocOrder(_)
InDocOrder(S) ==
    IF S = {} THEN <<>>
    ELSE LET first == CHOOSE p \in S : \A q \in S \ {p} : DocBefore(p, q)
         IN  <<first>> \o InDocOrder(S \ {first})

\* every item enclosing p is a (Section, children) tuple
InsideSections(t, p) ==
    \A n \in 1..(Len(p) - 1) : NodeAt(t, SubSeq(p, 1, n)).kind = "Pair"

\* the nodes with a title to show: a Link, a Section or a (Section, children)
\* tuple whose title is a non-empty string, enclosed by sections only
TitledNodes(t) ==
    {p \in Positions(t) :
        /\ NodeAt(t, p).kind \in {"Link", "Pair", "Section"}
        /\ Truthy(NodeAt(t, p).title)
        /\ InsideSections(t, p)}

\* the trees of the documented shapes only: Link, (Section, children), Section
Documented(t) == \A p \in Positions(t) : NodeAt(t, p).kind # "LinkPair"

\* the title with its surrounding whitespace removed; a missing title is empty
Trimmed(title) == IF title = None THEN <<>> ELSE strip(title)

(* ---------------------------------------------------------------------- *)
(* Claims about walk_toc                                                   *)
(* ---------------------------------------------------------------------- *)

\* C1: the number of entries walk_toc yields equals the number of nodes of
\* the tree, nested ones included, whose trimmed title is non-empty.
C1_CountEqualsTrimmedTitled ==
    (pc = "returned" /\ Documented(toc)) =>
        Len(results) = Cardinality({p \in Positions(toc) :
                                        Trimmed(NodeAt(toc, p).title) # <<>>})

\* C2: the yielded sequence is the depth-first pre-order traversal: the i-th
\* entry carries the title of the i-th titled node in document order (a
\* section before its descendants, a subtree before the later siblings,
\* siblings in input order).
C2_PreOrder ==
    pc = "returned" =>
        LET order == InDocOrder(TitledNodes(toc))
        IN  /\ Len(results) = Len(order)
            /\ \A i \in 1..Len(order) :
                   results[i][1] = strip(NodeAt(toc, order[i]).title)

\* a section with two entries of its own subtree followed by a later sibling
C2_Witness ==
    /\ pc = "returned"
    /\ Len(toc) = 2
    /\ toc[1].kind = "Pair"
    /\ Len(toc[1].children) = 1
    /\ Len(results) = 3
    /\ results[1][1] # results[2][1]

\* C3: every entry carries the number of sections enclosing its node as its
\* depth (0 at top level), children of an untitled section included, and a
\* section without a title yields no entry of its own: the entries are
\* those of the titled nodes only.
C3_DepthIsNesting ==
    pc = "returned" =>
        LET order == InDocOrder(TitledNodes(toc))
        IN  /\ Len(results) = Len(order)
            /\ \A i \in 1..Len(results) : results[i][2] = Len(order[i]) - 1

\* an untitled section whose only child is yielded at depth 1, and a child
\* of that child's section at depth 2
C3_Witness ==
    /\ pc = "returned"
    /\ Len(toc) = 1
    /\ toc[1].kind = "Pair"
    /\ ~Truthy(toc[1].title)
    /\ Len(results) = 2
    /\ results[1][2] = 1
    /\ results[2][2] = 2

\* C5: no entry with an empty title is ever yielded.
C5_NoEmptyTitle ==
    pc = "returned" => \A i \in 1..Len(results) : results[i][1] # <<>>

(* ---------------------------------------------------------------------- *)
(* Claims about toc_to_markdown                                            *)
(* ---------------------------------------------------------------------- *)

\* str.split("\n")
RECURSIVE SplitLines(_)
SplitLines(text) ==
    IF \E i \in 1..Len(text) : text[i] = NL
    THEN LET i == CHOOSE k \in 1..Len(text) :
                      text[k] = NL /\ \A j \in 1..(k - 1) : text[j] # NL
         IN  <<SubSeq(text, 1, i - 1)>> \o SplitLines(SubSeq(text, i + 1, Len(text)))
    ELSE <<text>>

\* the number of "#" a line starts with
LeadingHashes(line) ==
    Cardinality({k \in 1..Len(line) : \A j \in 1..k : line[j] = HASH})

Written == pc \in {"print", "done"}

\* C4: for every entry (title, d) the written document has a line of exactly
\* d + 2 "#", one space, then the title; the book-title line alone has
\* heading level 1.
C4_HeadingLevel ==
    Written =>
        LET lines == SplitLines(fs[output_file])
        IN  /\ Len(lines) = Len(toc_titles) + 3
            /\ LeadingHashes(lines[1]) = 1
            /\ \A i \in 1..Len(toc_titles) :
                   LET line == lines[i + 2]
                       title == toc_titles[i][1]
                       d == toc_titles[i][2]
                   IN  /\ d >= 0
                       /\ LeadingHashes(line) = d + 2
                       /\ Len(line) = d + 3 + Len(title)
                       /\ line[d + 3] = SP
                       /\ SubSeq(line, d + 4, Len(line)) = title

\* a written document with a top-level entry and a nested one
C4_Witness ==
    /\ pc = "done"
    /\ Len(toc_titles) = 2
    /\ toc_titles[1][2] = 0
    /\ toc_titles[2][2] = 1
    /\ SplitLines(fs[output_file])[4] = <<HASH, HASH, HASH, SP, "a">>

\* C6: the written document begins with "# <book title>" and exactly one
\* blank line, its lines are separated by single newlines, and it ends with
\* one newline after its last line.
C6_DocumentFrame ==
    Written =>
        LET text == fs[output_file]
            head == <<HASH, SP>> \o book_title \o <<NL, NL>>
            body == SubSeq(text, Len(head) + 1, Len(text))
        IN  /\ Len(text) >= Len(head)
            /\ SubSeq(text, 1, Len(head)) = head
            /\ body # <<>> =>
                   /\ body[1] # NL
                   /\ body[Len(body)] = NL
                   /\ \A k \in 1..(Len(body) - 1) : ~(body[k] = NL /\ body[k + 1] = NL)
            /\ Cardinality({k \in 1..Len(body) : body[k] = NL}) = Len(toc_titles)

\* a written document with a metadata title and two entry lines
C6_Witness ==
    /\ pc = "done"
    /\ book.metadata.titles # <<>>
    /\ Len(toc_titles) = 2
    /\ fs[output_file] # OldText

\* C7: a tree in which no node that is walked has a title is no error: the
\* run can fail only in loading, before anything is rendered, or in writing
\* the two lines of the title block, and the written document is the title
\* heading and the blank line alone, headed "Untitled" when the metadata
\* gives no title.
C7_EmptyToc ==
    TitledNodes(book.toc) = {} =>
        /\ pc = "raised" =>
               \/ error = "LoadError" /\ md_lines = <<>>
               \/ error = "WriteError" /\ Len(md_lines) = 2
        /\ Written =>
               fs[output_file] =
                   <<HASH, SP>>
                     \o (IF book.metadata.dc /\ book.metadata.titles # <<>>
                         THEN book.metadata.titles[1].value
                         ELSE Untitled)
                     \o <<NL, NL>>

\* the empty tree of a book without a title, written as "# Untitled\n\n"
C7_Witness ==
    /\ pc = "done"
    /\ book.toc = <<>>
    /\ book.metadata.titles = <<>>
    /\ fs[output_file] = <<HASH, SP, "U", "n", "t", "i", "t", "l", "e", "d", NL, NL>>

\* C8: when loading fails the error leaves toc_to_markdown, no file is
\* created or changed and nothing is printed.
C8_LoadErrorWritesNothing ==
    [][error' = "LoadError" =>
          /\ pc' = "raised"
          /\ fs' = fs
          /\ stdout = <<>>
          /\ stdout' = <<>>]_vars

\* a failed load that leaves the file already at the output path as it was
C8_Witness ==
    /\ pc = "raised"
    /\ error = "LoadError"
    /\ fs[OutputFile(epub_path)] = OldText

\* C10: the steps run in the order load, flatten, write, report: the file
\* changes only once every entry is collected and rendered, the success
\* message is printed only with the whole text in the file, and a failed
\* write leaves toc_to_markdown with nothing printed.
C10_Order ==
    /\ [][fs' # fs =>
             /\ pc = "write_text"
             /\ toc_titles = walk_toc(book.toc, 0)
             /\ Len(md_lines) = Len(toc_titles) + 2]_vars
    /\ [](stdout # <<>> =>
             /\ pc = "done"
             /\ error = "none"
             /\ stdout = <<[message |-> "Success", path |-> OutputFile(epub_path)]>>
             /\ fs[OutputFile(epub_path)] = join(md_lines) \o <<NL>>)
    /\ [](error = "WriteError" => pc = "raised" /\ stdout = <<>>)

\* the success message after an existing file was replaced by a document
\* with an entry
C10_Witness ==
    /\ pc = "done"
    /\ stdout # <<>>
    /\ Len(toc_titles) >= 1
    /\ fs[output_file] # OldText

(* ---------------------------------------------------------------------- *)
(* Claim about the output path                                             *)
(* ---------------------------------------------------------------------- *)

\* name = base + "." + extension with a non-empty base and a non-empty
\* extension without a dot
SplitsAt(name, i) ==
    /\ 1 < i
    /\ i < Len(name)
    /\ name[i] = DOT
    /\ \A j \in (i + 1)..Len(name) : name[j] # DOT

\* C9: the output path lies in the directory of the input and is named
\* "<stem> - ToC.md", the stem being the input name less its final
\* extension, whatever the metadata of the book.
C9_OutputPath ==
    pc # "output_file" =>
        /\ output_file.parent = epub_path.parent
        /\ \A i \in 1..Len(epub_path.name) :
               SplitsAt(epub_path.name, i) =>
                   output_file.name = SubSeq(epub_path.name, 1, i - 1) \o ToCSuffix
        /\ (\A i \in 1..Len(epub_path.name) : ~SplitsAt(epub_path.name, i)) =>
               output_file.name = epub_path.name \o ToCSuffix

\* "f.v.f" in a directory gives "f.v - ToC.md" in that directory
C9_Witness ==
    /\ pc = "md_lines"
    /\ epub_path = Path(<<"books">>, <<"f", DOT, "v", DOT, "f">>)
    /\ output_file = Path(<<"books">>, <<"f", DOT, "v">> \o ToCSuffix)
    /\ book.metadata.titles # <<>>

(* ---------------------------------------------------------------------- *)
(* Claim about repeated calls                                              *)
(* ---------------------------------------------------------------------- *)

\* C11: rendering is deterministic and idempotent: a later call on the same
\* tree and title writes byte for byte what the earlier call wrote, so that
\* the write over the earlier output leaves the file as it was, and reports
\* the same path.
C11_Idempotent ==
    /\ [][(stdout # <<>> /\ pc = "write_text" /\ pc' = "print") =>
             /\ fs[output_file] # NoFile
             /\ fs' = fs]_vars
    /\ [](\A i \in 1..Len(stdout) : stdout[i] = stdout[1])

\* a second call that has rewritten a document with two entries
C11_Witness ==
    /\ pc = "done"
    /\ Len(stdout) = 2
    /\ Len(toc_titles) = 2
    /\ fs[output_file] = text_of(md_lines)

(* ---------------------------------------------------------------------- *)
(* Claim about the rendered entries                                        *)
(* ---------------------------------------------------------------------- *)

IsHeading(line) == line # <<>> /\ line[1] = HASH

\* line.split(" ", 1)[1]: what follows the first space of a line
AfterFirstSpace(line) ==
    LET i == CHOOSE k \in 1..Len(line) :
                 line[k] = SP /\ \A j \in 1..(k - 1) : line[j] # SP
    IN  SubSeq(line, i + 1, Len(line))

\* C12: the document has, after the title block, one heading line per entry
\* walk_toc yields, the i-th of them carrying the i-th yielded title as it
\* is; building the title-cased set changes no collected and no rendered
\* title.
C12_OneLinePerEntry ==
    LET walk == walk_toc(book.toc, 0)
    IN  /\ \A i \in 1..Len(toc_titles) : i <= Len(walk) /\ toc_titles[i] = walk[i]
        /\ Cardinality(titleized_toc) <= Len(toc_titles)
        /\ Written =>
               LET lines == SplitLines(fs[output_file])
                   headings == SelectSeq(SubSeq(lines, 3, Len(lines)), IsHeading)
               IN  /\ Len(headings) = Len(walk)
                   /\ \A i \in 1..Len(walk) :
                          AfterFirstSpace(headings[i]) = walk[i][1]

\* a written document whose two titles differ from their title-cased forms
C12_Witness ==
    /\ pc = "done"
    /\ titleized_toc = {<<"A">>, <<"B">>}
    /\ SplitLines(fs[output_file])[3] = <<HASH, HASH, SP, "a">>
    /\ SplitLines(fs[output_file])[4] = <<HASH, HASH, HASH, SP, "b">>

(* ---------------------------------------------------------------------- *)
(* Claims about single items of the tree                                   *)
(* ---------------------------------------------------------------------- *)

\* s without its k-th element
RemoveIndex(s, k) == SubSeq(s, 1, k - 1) \o SubSeq(s, k + 1, Len(s))

\* the tree t without the item at position p and without what is below it
RECURSIVE RemoveAt(_, _)
RemoveAt(t, p) ==
    IF Len(p) = 1 THEN RemoveIndex(t, p[1])
    ELSE [t EXCEPT ![p[1]].children = RemoveAt(@, Tail(p))]

\* C13: a bare Section is a leaf: with a title it yields exactly one entry,
\* its trimmed title at the depth of its list, and without one it yields
\* none; the rest of the walk, later siblings included, is what it would be
\* without the Section.
C13_BareSectionIsLeaf ==
    pc = "returned" =>
        \A p \in Positions(toc) :
            (NodeAt(toc, p).kind = "Section" /\ InsideSections(toc, p)) =>
                LET rest == walk_toc(RemoveAt(toc, p), 0)
                    before == Cardinality({q \in TitledNodes(toc) : DocBefore(q, p)})
                IN  IF Truthy(NodeAt(toc, p).title)
                    THEN /\ Len(results) = Len(rest) + 1
                         /\ results[before + 1] =
                                <<strip(NodeAt(toc, p).title), Len(p) - 1>>
                         /\ RemoveIndex(results, before + 1) = rest
                    ELSE results = rest

\* a titled bare Section inside a section, followed by a sibling that is
\* yielded at the same depth
C13_Witness ==
    /\ pc = "returned"
    /\ Len(toc) = 1
    /\ toc[1].kind = "Pair"
    /\ Len(toc[1].children) = 2
    /\ toc[1].children[1].kind = "Section"
    /\ results = <<<<<<"a">>, 1>>, <<<<"b">>, 1>>>>

\* C14: an item that is none of Link, (Section, children) and Section is
\* skipped with everything below it: the walk yields what it yields for the
\* tree without that item, the later siblings at their unchanged depth.
C14_UnknownItemSkipped ==
    pc = "returned" =>
        \A p \in Positions(toc) :
            NodeAt(toc, p).kind = "LinkPair" =>
                results = walk_toc(RemoveAt(toc, p), 0)

\* a titled (Link, children) tuple with a titled child, skipped, and the
\* sibling after it yielded at depth 0
C14_Witness ==
    /\ pc = "returned"
    /\ Len(toc) = 2
    /\ toc[1].kind = "LinkPair"
    /\ Truthy(toc[1].title)
    /\ Len(toc[1].children) = 1
    /\ Truthy(toc[1].children[1].title)
    /\ toc[1].children[1].kind = "Link"
    /\ results = <<<<<<"a">>, 0>>>>

====
